---------------------------- MODULE Spec2Model ----------------------------
(***************************************************************************)
(* DayPlanner (src/src/MainApp.py): a chat-styled task capture window, a   *)
(* checklist window (TaskWindow) and the rec/data.json record that links   *)
(* one process run to the next.                                            *)
(*                                                                         *)
(* Text is a sequence of one-character strings.  A canvas is a record      *)
(* holding the Python list `bubbles`, the Tk display list `items` (a       *)
(* function from item id to item), the next item id, the scroll region and *)
(* the vertical view fraction.                                             *)
(***************************************************************************)
EXTENDS Integers, Sequences, FiniteSets, TLC

(***************************************************************************)
(* Bounds of the model.                                                    *)
(***************************************************************************)
MaxTasks == 3       \* non-empty lines submitted in one capture session
MaxLineLen == 1     \* characters in one submitted line
MaxBubbles == 3     \* send_message calls in the canvas-only specification
LineSpace == 1      \* pixel height of one text line of the label font
CharWidth == 1      \* pixel width of one character cell of the label font

(***************************************************************************)
(* Program constants.                                                      *)
(***************************************************************************)
BUBBLE_PAD_Y == 500
L_BUBBLE_PAD_X == 90
R_BUBBLE_PAD_X == 350
WRAP_WIDTH == 20
LABEL_WIDTH == 17
SCROLL_PAD == 300
STEM_RISE == 10
STEM_REACH == 15
EXIT_OFFSET == 100

Chars == {"a", "\"", "\\"}

RECURSIVE TextsUpTo(_)
TextsUpTo(n) ==
  IF n = 0 THEN {<<>>}
  ELSE LET shorter == TextsUpTo(n - 1)
       IN  shorter \cup {Append(t, c) : t \in shorter, c \in Chars}

\* what the user can type into the entry and submit with <Return>
Lines == TextsUpTo(MaxLineLen) \ {<<>>}

WELCOME ==
  << "W", "e", "l", "c", "o", "m", "e", " ", "b", "a", "c", "k", "!" >>
PROMPT ==
  << "P", "l", "e", "a", "s", "e", " ", "e", "n", "t", "e", "r", " ", "t",
     "o", "d", "a", "y", "'", "s", " ", "t", "a", "s", "k", "s", ",", " ",
     "o", "n", "e", " ", "a", "t", " ", "a", " ", "t", "i", "m", "e", ",",
     " ", "e", "n", "t", "e", "r", "i", "n", "g", " ", "i", "n", " ", "n",
     "o", "t", "h", "i", "n", "g", " ", "w", "h", "e", "n", " ", "f", "i",
     "n", "i", "s", "h", "e", "d", "." >>
BYE1 ==
  << "A", "n", "o", "t", "h", "e", "r", " ", "d", "a", "y", ",", " ", "a",
     "n", "o", "t", "h", "e", "r", " ", "d", "o", "l", "l", "a", "r" >>
BYE2 ==
  << "A", "l", "r", "i", "g", "h", "t", ",", " ", "I", "'", "l", "l", " ",
     "s", "e", "e", " ", "y", "a", " ", "t", "o", "m", "o", "r", "r", "o",
     "w" >>

EXIT_TEXT ==
  << "E", "x", "i", "t", " ", "P", "r", "o", "g", "r", "a", "m" >>

Max(a, b) == IF a >= b THEN a ELSE b

(***************************************************************************)
(* textwrap.fill(message, 20), as the number of lines it produces.         *)
(***************************************************************************)
\* lengths of the maximal runs of non-space characters of msg[i..]
RECURSIVE WordLens(_, _, _, _)
WordLens(msg, i, run, acc) ==
  IF i > Len(msg) THEN (IF run > 0 THEN Append(acc, run) ELSE acc)
  ELSE IF msg[i] = " "
       THEN WordLens(msg, i + 1, 0, IF run > 0 THEN Append(acc, run) ELSE acc)
       ELSE WordLens(msg, i + 1, run + 1, acc)

\* greedy filling: n lines are complete, cur characters are on the line being
\* built, rem characters of word k are still to be placed
RECURSIVE FillCount(_, _, _, _, _)
FillCount(lens, k, rem, cur, n) ==
  IF k > Len(lens) THEN n + (IF cur > 0 THEN 1 ELSE 0)
  ELSE LET nxt == IF k + 1 <= Len(lens) THEN lens[k + 1] ELSE 0
       IN  IF cur = 0
           THEN IF rem <= WRAP_WIDTH
                THEN FillCount(lens, k + 1, nxt, rem, n)
                ELSE FillCount(lens, k, rem - WRAP_WIDTH, 0, n + 1)
           ELSE IF cur + 1 + rem <= WRAP_WIDTH
                THEN FillCount(lens, k + 1, nxt, cur + 1 + rem, n)
                ELSE IF rem > WRAP_WIDTH /\ cur + 1 < WRAP_WIDTH
                     THEN FillCount(lens, k, rem - (WRAP_WIDTH - cur - 1), 0, n + 1)
                     ELSE FillCount(lens, k, rem, 0, n + 1)

\* a label always shows at least one (possibly empty) line
WrapLines(message) ==
  LET lens == WordLens(message, 1, 0, <<>>)
  IN  Max(1, IF lens = <<>> THEN 0 ELSE FillCount(lens, 1, lens[1], 0, 0))

(***************************************************************************)
(* json.dump / json.load of a list of strings.                             *)
(***************************************************************************)
RECURSIVE EscapeFrom(_, _)
EscapeFrom(s, i) ==
  IF i > Len(s) THEN <<>>
  ELSE (IF s[i] \in {"\"", "\\"} THEN <<"\\", s[i]>> ELSE <<s[i]>>)
       \o EscapeFrom(s, i + 1)

\* a dump that writes the characters as they are
json_string_raw(s) == <<"\"">> \o s \o <<"\"">>

json_string(s) == <<"\"">> \o EscapeFrom(s, 1) \o <<"\"">>

RECURSIVE JoinFrom(_, _)
JoinFrom(list, k) ==
  IF k > Len(list) THEN <<>>
  ELSE (IF k > 1 THEN <<",", " ">> ELSE <<>>) \o json_string(list[k])
       \o JoinFrom(list, k + 1)

json_dump(list) == <<"[">> \o JoinFrom(list, 1) \o <<"]">>

\* scan a string body from position i (just after the opening quote)
RECURSIVE ScanString(_, _, _)
ScanString(txt, i, acc) ==
  IF i > Len(txt) THEN [val |-> acc, next |-> i]
  ELSE IF txt[i] = "\"" THEN [val |-> acc, next |-> i + 1]
  ELSE IF txt[i] = "\\" /\ i + 1 <= Len(txt)
       THEN ScanString(txt, i + 2, Append(acc, txt[i + 1]))
       ELSE ScanString(txt, i + 1, Append(acc, txt[i]))

\* scan the elements of an array from position i (just after the bracket)
RECURSIVE ScanArray(_, _, _)
ScanArray(txt, i, acc) ==
  IF i > Len(txt) \/ txt[i] = "]" THEN acc
  ELSE IF txt[i] = "\""
       THEN LET s == ScanString(txt, i + 1, <<>>)
            IN  ScanArray(txt, s.next, Append(acc, s.val))
       ELSE ScanArray(txt, i + 1, acc)

json_load(txt) == ScanArray(txt, 2, <<>>)

(***************************************************************************)
(* Canvas items and geometry.                                              *)
(***************************************************************************)
LabelSize(message) ==
  [w |-> LABEL_WIDTH * CharWidth, h |-> WrapLines(message) * LineSpace]

\* Canvas.bbox of a window item (anchor: centre), <<x1, y1, x2, y2>>
WindowBox(it) ==
  LET x1 == it.x - (it.w \div 2)
      y1 == it.y - (it.h \div 2)
  IN  <<x1, y1, x1 + it.w, y1 + it.h>>

\* the hull of a polygon's points
PolygonBox(it) ==
  LET xs == {it.pts[1], it.pts[3], it.pts[5]}
      ys == {it.pts[2], it.pts[4], it.pts[6]}
  IN  << CHOOSE v \in xs : \A u \in xs : v <= u,
         CHOOSE v \in ys : \A u \in ys : v <= u,
         CHOOSE v \in xs : \A u \in xs : v >= u,
         CHOOSE v \in ys : \A u \in ys : v >= u >>

bbox(it) == IF it.kind = "polygon" THEN PolygonBox(it) ELSE WindowBox(it)

\* Canvas.bbox(tk.ALL) of a non-empty display list
bbox_all(items) ==
  LET boxes == {bbox(items[id]) : id \in DOMAIN items}
  IN  << CHOOSE v \in {b[1] : b \in boxes} : \A b \in boxes : v <= b[1],
         CHOOSE v \in {b[2] : b \in boxes} : \A b \in boxes : v <= b[2],
         CHOOSE v \in {b[3] : b \in boxes} : \A b \in boxes : v >= b[3],
         CHOOSE v \in {b[4] : b \in boxes} : \A b \in boxes : v >= b[4] >>

\* ChatBubble.draw_triangle on the box of the bubble's window item
draw_triangle(box, left) ==
  IF left
  THEN <<box[1], box[4] - STEM_RISE, box[1] - STEM_REACH, box[4] + STEM_RISE,
         box[1], box[4]>>
  ELSE <<box[3], box[4] - STEM_RISE, box[3] + STEM_REACH, box[4] + STEM_RISE,
         box[3], box[4]>>

\* Canvas.move: an id that names no item moves nothing
move(items, id, dx, dy) ==
  IF id \notin DOMAIN items THEN items
  ELSE LET it == items[id]
       IN  [items EXCEPT ![id] =
              IF it.kind = "polygon"
              THEN [it EXCEPT !.pts = <<it.pts[1] + dx, it.pts[2] + dy,
                                        it.pts[3] + dx, it.pts[4] + dy,
                                        it.pts[5] + dx, it.pts[6] + dy>>]
              ELSE [it EXCEPT !.x = it.x + dx, !.y = it.y + dy]]

NoCanvas ==
  [bubbles |-> <<>>, items |-> <<>>, next_id |-> 1,
   scrollregion |-> <<>>, yview |-> 0]

\* a bubble whose stem is drawn before pending layout is flushed
ChatBubble_unflushed(cv, message, left) ==
  LET i      == cv.next_id
      tip    == cv.next_id + 1
      placed == [kind |-> "window", widget |-> "frame",
                 x |-> IF left THEN L_BUBBLE_PAD_X ELSE R_BUBBLE_PAD_X,
                 y |-> BUBBLE_PAD_Y, w |-> 1, h |-> 1,
                 text |-> message, left |-> left]
      size   == LabelSize(message)
      laid   == [placed EXCEPT !.w = size.w, !.h = size.h]
      stem   == [kind |-> "polygon", pts |-> draw_triangle(WindowBox(placed), left)]
  IN  [bubble |-> [i |-> i, bubl_tip |-> tip, left |-> left],
       items  |-> (i :> laid) @@ (tip :> stem) @@ cv.items,
       next_id |-> cv.next_id + 2]

\* ChatBubble.__init__: the frame is placed on the canvas, the label is packed
\* into it, pending layout is flushed, and only then is the stem drawn
ChatBubble(cv, message, left) ==
  LET i      == cv.next_id
      tip    == cv.next_id + 1
      placed == [kind |-> "window", widget |-> "frame",
                 x |-> IF left THEN L_BUBBLE_PAD_X ELSE R_BUBBLE_PAD_X,
                 y |-> BUBBLE_PAD_Y, w |-> 1, h |-> 1,
                 text |-> message, left |-> left]
      size   == LabelSize(message)
      laid   == [placed EXCEPT !.w = size.w, !.h = size.h]
      stem   == [kind |-> "polygon", pts |-> draw_triangle(WindowBox(laid), left)]
  IN  [bubble |-> [i |-> i, bubl_tip |-> tip, left |-> left],
       items  |-> (i :> laid) @@ (tip :> stem) @@ cv.items,
       next_id |-> cv.next_id + 2]

\* the loop of send_message over self.bubbles
RECURSIVE MoveBubbles(_, _, _, _)
MoveBubbles(items, bubbles, k, dy) ==
  IF k > Len(bubbles) THEN items
  ELSE MoveBubbles(move(move(items, bubbles[k].i, 0, dy),
                        bubbles[k].bubl_tip, 0, dy),
                   bubbles, k + 1, dy)

\* a scroll region without the padding above
update_scrollregion_unpadded(cv) ==
  [cv EXCEPT !.scrollregion = bbox_all(cv.items), !.yview = 1]

\* ChatCanvas.update_scrollregion
update_scrollregion(cv) ==
  LET box == bbox_all(cv.items)
  IN  [cv EXCEPT !.scrollregion = <<box[1], box[2] - SCROLL_PAD, box[3], box[4]>>,
                 !.yview = 1]

\* a send that lifts the older bubbles by one height only
send_message_single(cv, message, left) ==
  LET temp  == ChatBubble(cv, message, left)
      box   == bbox(temp.items[temp.bubble.i])
      dy    == box[2] - box[4]
      older == MoveBubbles(temp.items, cv.bubbles, 1, dy)
      all   == move(move(older, temp.bubble.i, 0, dy), temp.bubble.bubl_tip, 0, dy)
  IN  update_scrollregion(
        [cv EXCEPT !.bubbles = Append(cv.bubbles, temp.bubble),
                   !.items = all,
                   !.next_id = temp.next_id])

\* ChatCanvas.send_message
send_message(cv, message, left) ==
  LET temp  == ChatBubble(cv, message, left)
      box   == bbox(temp.items[temp.bubble.i])
      dy    == box[2] - box[4]
      older == MoveBubbles(temp.items, cv.bubbles, 1, 2 * dy)
      all   == move(move(older, temp.bubble.i, 0, dy), temp.bubble.bubl_tip, 0, dy)
  IN  update_scrollregion(
        [cv EXCEPT !.bubbles = Append(cv.bubbles, temp.bubble),
                   !.items = all,
                   !.next_id = temp.next_id])

\* ChatCanvas.exit_btn: a button in a window item below the baseline
exit_btn(cv) ==
  [cv EXCEPT !.items = (cv.next_id :>
                          [kind |-> "window", widget |-> "button",
                           x |-> L_BUBBLE_PAD_X + EXIT_OFFSET,
                           y |-> BUBBLE_PAD_Y + EXIT_OFFSET,
                           w |-> Len(EXIT_TEXT) * CharWidth, h |-> LineSpace,
                           text |-> EXIT_TEXT, left |-> TRUE])
                       @@ cv.items,
             !.next_id = cv.next_id + 1]

\* whether the canvas shows the exit button
HasExit(cv) ==
  \E id \in DOMAIN cv.items :
     cv.items[id].kind = "window" /\ cv.items[id].widget = "button"

\* MainApplication.refresh_cnv: Canvas.delete('all')
refresh_cnv(cv) == [cv EXCEPT !.items = <<>>]

(***************************************************************************)
(* State.                                                                  *)
(*   root       the Tk root window: "none" (no process is running, or the  *)
(*              root has been destroyed), "normal" or "withdrawn"          *)
(*   file       rec/data.json: whether it exists, and its text             *)
(*   app        whether a MainApplication instance exists                  *)
(*   tasks      MainApplication.tasks                                      *)
(*   entry      MainApplication.entry: its state and its <Return> binding  *)
(*   cnv_chat   MainApplication.cnv_chat                                   *)
(*   tw         the TaskWindow: open, task_list, app (is not None), and    *)
(*              whether kill_root is bound to <Destroy>                    *)
(*   last_event the callback the event loop ran last                       *)
(*   start_path the branch the launch of this run, or of the last run,     *)
(*              took                                                       *)
(*   submitted  the non-empty lines submitted in this run, in order        *)
(*   pending    the list of the last checklist constructed and not         *)
(*              completed (kept across runs)                               *)
(*   tw_made    the number of TaskWindows constructed in this run          *)
(***************************************************************************)
VARIABLES root, file, app, tasks, entry, cnv_chat, tw,
          last_event, start_path, submitted, pending, tw_made

vars == <<root, file, app, tasks, entry, cnv_chat, tw,
          last_event, start_path, submitted, pending, tw_made>>

NoFile == [exists |-> FALSE, text |-> <<>>]
NoEntry == [state |-> "disabled", bound |-> FALSE]
NoWindow == [open |-> FALSE, task_list |-> <<>>, app |-> FALSE, bound |-> FALSE]
Nothing == [some |-> FALSE, list |-> <<>>]

Init ==
  /\ root = "none"
  /\ file = NoFile
  /\ app = FALSE
  /\ tasks = <<>>
  /\ entry = NoEntry
  /\ cnv_chat = NoCanvas
  /\ tw = NoWindow
  /\ last_event = "none"
  /\ start_path = "none"
  /\ submitted = <<>>
  /\ pending = Nothing
  /\ tw_made = 0

\* a save_state that writes nothing
save_state_skipped(task_list) == NoFile

\* TaskWindow.save_state
save_state(task_list) == [exists |-> TRUE, text |-> json_dump(task_list)]

\* TaskWindow.__init__: binds kill_root, keeps the list, saves it
TaskWindow(task_list, has_app) ==
  [open |-> TRUE, task_list |-> task_list, app |-> has_app, bound |-> TRUE]

\* a greeting that sends the welcome line only
gather_info_short(cv) == send_message(cv, WELCOME, TRUE)

\* MainApplication.gather_info: both greetings are sent before the timers run
gather_info(cv) ==
  send_message(send_message(cv, WELCOME, TRUE), PROMPT, TRUE)

\* the canvas part of MainApplication.end_day
end_day(cv) ==
  exit_btn(send_message(send_message(cv, BYE1, TRUE), BYE2, TRUE))

\* an append that skips a line the list already holds
input_tasks_append_unique(list, line) ==
  IF \E k \in 1..Len(list) : list[k] = line THEN list ELSE Append(list, line)

\* MainApplication.input_tasks, non-empty branch: the list after the append
input_tasks_append(list, line) == Append(list, line)

\* an empty branch that leaves the entry as it is
input_tasks_entry_kept(e) == e

\* MainApplication.input_tasks, empty branch, and end_day: the entry afterwards
input_tasks_entry(e) == [state |-> "disabled", bound |-> FALSE]
\* an end_day that enables the entry, as gather_info does
end_day_entry_normal(e) == [e EXCEPT !.state = "normal"]
end_day_entry(e) == [e EXCEPT !.state = "disabled"]

\* an end_tasks that empties the list
end_tasks_tasks_cleared(has_app, list) == <<>>

\* MainApplication.tasks once end_tasks has run: the tasks of the instance the
\* window was given, or of the instance end_tasks creates
end_tasks_tasks(has_app, list) == IF has_app THEN list ELSE <<>>

\* a kill_root that leaves the root alone
kill_root_keep(r) == r

\* TaskWindow.kill_root for the window's own <Destroy>: the root afterwards
kill_root(r) == IF r # "none" THEN "none" ELSE r

\* an exit that leaves the record on disk
exit_file_kept(f) == f

\* MainApplication.exit: rec/data.json afterwards
exit_file(f) == IF f.exists THEN NoFile ELSE f

\* mainloop has returned: no object of the run is left
Ended ==
  /\ app' = FALSE
  /\ tasks' = <<>>
  /\ entry' = NoEntry
  /\ cnv_chat' = NoCanvas
  /\ tw' = NoWindow
  /\ submitted' = <<>>
  /\ tw_made' = 0
  /\ UNCHANGED start_path

\* a launch that never withdraws the root
launch_root_shown(exists) == "normal"

\* __main__: the root window once the launch branch has run
launch_root(exists) == IF exists THEN "withdrawn" ELSE "normal"

\* __main__: the process starts
Launch ==
  /\ root = "none"
  /\ last_event' = "launch"
  /\ submitted' = <<>>
  /\ IF file.exists
     THEN LET loaded == json_load(file.text)
          IN  /\ root' = launch_root(TRUE)
              /\ tw' = TaskWindow(loaded, FALSE)
              /\ file' = save_state(loaded)
              /\ pending' = [some |-> TRUE, list |-> loaded]
              /\ start_path' = "resume"
              /\ tw_made' = 1
              /\ UNCHANGED <<app, tasks, entry, cnv_chat>>
     ELSE /\ root' = launch_root(FALSE)
          /\ app' = TRUE
          /\ tasks' = <<>>
          /\ cnv_chat' = gather_info(NoCanvas)
          /\ entry' = [state |-> "normal", bound |-> TRUE]
          /\ start_path' = "fresh"
          /\ tw_made' = 0
          /\ UNCHANGED <<tw, file, pending>>

\* MainApplication.input_tasks: <Return> in the entry, which holds `line`
InputTasks(line) ==
  /\ root # "none"
  /\ app
  /\ entry.state = "normal"
  /\ entry.bound
  /\ last_event' = "return"
  /\ IF Len(line) = 0
     THEN /\ tw' = TaskWindow(tasks, TRUE)
          /\ file' = save_state(tasks)
          /\ pending' = [some |-> TRUE, list |-> tasks]
          /\ cnv_chat' = refresh_cnv(cnv_chat)
          /\ root' = "withdrawn"
          /\ entry' = input_tasks_entry(entry)
          /\ tw_made' = tw_made + 1
          /\ UNCHANGED <<app, tasks, start_path, submitted>>
     ELSE /\ Len(tasks) < MaxTasks
          /\ cnv_chat' = send_message(cnv_chat, line, FALSE)
          /\ tasks' = input_tasks_append(tasks, line)
          /\ submitted' = Append(submitted, line)
          /\ tw' = IF tw.open /\ tw.app
                   THEN [tw EXCEPT !.task_list = tasks']  \* the same list object
                   ELSE tw
          /\ UNCHANGED <<root, file, app, entry, start_path, pending, tw_made>>

\* TaskWindow.end_tasks: the "Tasks Finished" button
EndTasks ==
  /\ root # "none"
  /\ tw.open
  /\ last_event' = "btn_end"
  /\ app' = TRUE
  /\ tasks' = end_tasks_tasks(tw.app, tasks)
  /\ root' = "normal"
  /\ entry' = end_day_entry(IF tw.app THEN entry
                            ELSE [state |-> "disabled", bound |-> TRUE])
  /\ cnv_chat' = end_day(IF tw.app THEN cnv_chat ELSE NoCanvas)
  /\ tw' = NoWindow
  /\ pending' = Nothing
  /\ UNCHANGED <<file, start_path, submitted, tw_made>>

\* TaskWindow.kill_root: the checklist window is destroyed while <Destroy> is
\* still bound; the root goes with it and mainloop returns
KillRoot ==
  /\ root # "none"
  /\ tw.open
  /\ tw.bound
  /\ last_event' = "destroy"
  /\ root' = kill_root(root)
  /\ IF root' = "none"
     THEN Ended
     ELSE /\ tw' = NoWindow
          /\ UNCHANGED <<app, tasks, entry, cnv_chat, start_path, submitted, tw_made>>
  /\ UNCHANGED <<file, pending>>

\* MainApplication.exit: the "Exit Program" button on the canvas
Exit ==
  /\ root = "normal"
  /\ app
  /\ HasExit(cnv_chat)
  /\ last_event' = "btn_exit"
  /\ file' = exit_file(file)
  /\ pending' = Nothing
  /\ root' = "none"
  /\ Ended

\* the visible root window is closed; mainloop returns
CloseRoot ==
  /\ root = "normal"
  /\ last_event' = "close"
  /\ root' = "none"
  /\ Ended
  /\ UNCHANGED <<file, pending>>

Next ==
  \/ Launch
  \/ \E line \in Lines \cup {<<>>} : InputTasks(line)
  \/ EndTasks
  \/ KillRoot
  \/ Exit
  \/ CloseRoot

Spec == Init /\ [][Next]_vars

(***************************************************************************)
(* The canvas alone: any sequence of send_message calls and clears on the  *)
(* canvas of a running application.                                        *)
(***************************************************************************)
CanvasMessages == {<<>>, WELCOME, BYE1, PROMPT}

InitCanvas ==
  /\ root = "normal"
  /\ file = NoFile
  /\ app = TRUE
  /\ tasks = <<>>
  /\ entry = [state |-> "disabled", bound |-> TRUE]
  /\ cnv_chat = NoCanvas
  /\ tw = NoWindow
  /\ last_event = "none"
  /\ start_path = "none"
  /\ submitted = <<>>
  /\ pending = Nothing
  /\ tw_made = 0

CanvasSend(message, left) ==
  /\ Len(cnv_chat.bubbles) < MaxBubbles
  /\ cnv_chat' = send_message(cnv_chat, message, left)
  /\ last_event' = "send"
  /\ UNCHANGED <<root, file, app, tasks, entry, tw, start_path, submitted,
                  pending, tw_made>>

CanvasClear ==
  /\ DOMAIN cnv_chat.items # {}
  /\ cnv_chat' = refresh_cnv(cnv_chat)
  /\ last_event' = "clear"
  /\ UNCHANGED <<root, file, app, tasks, entry, tw, start_path, submitted,
                  pending, tw_made>>

NextCanvas ==
  \/ \E message \in CanvasMessages, left \in BOOLEAN : CanvasSend(message, left)
  \/ CanvasClear

SpecCanvas == InitCanvas /\ [][NextCanvas]_vars

(***************************************************************************)
(* Properties.                                                             *)
(***************************************************************************)
LaunchStep == root = "none" /\ root' # "none"

\* the texts of the bubbles of the Python list that are still on the canvas
LiveTexts(cv) ==
  {cv.items[cv.bubbles[k].i].text :
     k \in {j \in 1..Len(cv.bubbles) : cv.bubbles[j].i \in DOMAIN cv.items}}

\* C1: a <Return> on an empty entry during capture always constructs the
\* checklist, and the list it is given is exactly the non-empty lines
\* submitted before it in this run, in order, duplicates kept (none: empty).
C1_EmptyLineHandsOver ==
  [][(last_event' = "return" /\ submitted' = submitted)
       => /\ tw'.open
          /\ tw'.task_list = submitted
          /\ root' = "withdrawn"]_vars

C1_Witness ==
  /\ tw.open
  /\ start_path = "fresh"
  /\ Len(tw.task_list) >= 2
  /\ tw.task_list[1] = tw.task_list[2]

\* C2: at launch the existence of rec/data.json alone selects the path: with
\* it the checklist opens on the list read from it, the root is withdrawn, no
\* greeting is sent and the input is never enabled in that run; without it the
\* two greetings are sent, the input is enabled and no checklist opens.
C2_FileSelectsStartPath ==
  [][/\ LaunchStep =>
          IF file.exists
          THEN /\ tw'.open
               /\ tw'.task_list = json_load(file.text)
               /\ root' = "withdrawn"
               /\ ~app'
               /\ cnv_chat' = NoCanvas
               /\ entry'.state # "normal"
          ELSE /\ ~tw'.open
               /\ root' = "normal"
               /\ Len(cnv_chat'.bubbles) = 2
               /\ cnv_chat'.items[cnv_chat'.bubbles[1].i].text = WELCOME
               /\ cnv_chat'.items[cnv_chat'.bubbles[2].i].text = PROMPT
               /\ \A k \in 1..2 : cnv_chat'.bubbles[k].left
               /\ entry'.state = "normal"
     /\ start_path' = "resume" =>
          /\ entry'.state # "normal"
          /\ LiveTexts(cnv_chat') \cap {WELCOME, PROMPT} = {}]_vars

C2_Witness ==
  /\ start_path = "resume"
  /\ app
  /\ root = "normal"
  /\ file.exists

\* C3: right after the completion callback the persistence file does not
\* exist.
C3_CompletionDeletesFile ==
  [][last_event' = "btn_end" => ~file'.exists]_vars

\* C4: while a checklist window constructed with list L is open, the record
\* on disk reads back as L; and when the process ends before completion, the
\* next launch opens the checklist on a list equal to L.
C4_RoundTrip ==
  /\ [](tw.open => file.exists /\ json_load(file.text) = tw.task_list)
  /\ [][(LaunchStep /\ pending.some)
          => tw'.open /\ tw'.task_list = pending.list]_vars

C4_Witness ==
  /\ start_path = "resume"
  /\ tw.open
  /\ \E j, k \in 1..Len(tw.task_list) :
        tw.task_list[j] = <<"\"">> /\ tw.task_list[k] = <<"\\">>

\* the positions in the Python list of the bubbles still on the canvas
Live(cv) == {k \in 1..Len(cv.bubbles) : cv.bubbles[k].i \in DOMAIN cv.items}

\* the height y2 - y1 of the box of bubble k
BubbleHeight(cv, k) ==
  LET box == bbox(cv.items[cv.bubbles[k].i]) IN box[4] - box[2]

RECURSIVE HeightsAfter(_, _)
HeightsAfter(cv, k) ==
  IF k >= Len(cv.bubbles) THEN 0
  ELSE BubbleHeight(cv, k + 1) + HeightsAfter(cv, k + 1)

\* C5: after each send_message the newest bubble is at the baseline minus its
\* own height h, every bubble that was on the canvas before the call (body and
\* stem) is 2*h higher than it was, and so each bubble on the canvas is above
\* its first position by twice the heights of the bubbles sent after it.
C5_LayoutShift ==
  /\ [][Len(cnv_chat'.bubbles) = Len(cnv_chat.bubbles) + 1 =>
          LET n   == Len(cnv_chat'.bubbles)
              new == cnv_chat'.bubbles[n]
              h   == BubbleHeight(cnv_chat', n)
          IN  /\ cnv_chat'.items[new.i].y = BUBBLE_PAD_Y - h
              /\ \A k \in Live(cnv_chat) :
                   LET b == cnv_chat.bubbles[k]
                   IN  /\ cnv_chat'.items[b.i] =
                            [cnv_chat.items[b.i] EXCEPT !.y = @ - 2 * h]
                       /\ \A c \in {2, 4, 6} :
                            cnv_chat'.items[b.bubl_tip].pts[c] =
                              cnv_chat.items[b.bubl_tip].pts[c] - 2 * h
                       /\ \A c \in {1, 3, 5} :
                            cnv_chat'.items[b.bubl_tip].pts[c] =
                              cnv_chat.items[b.bubl_tip].pts[c]]_vars
  /\ [](\A k \in Live(cnv_chat) :
          cnv_chat.items[cnv_chat.bubbles[k].i].y =
            BUBBLE_PAD_Y - BubbleHeight(cnv_chat, k) - 2 * HeightsAfter(cnv_chat, k))

C5_Witness ==
  /\ Len(cnv_chat.bubbles) >= 3
  /\ Live(cnv_chat) = 1..Len(cnv_chat.bubbles)
  /\ BubbleHeight(cnv_chat, 1) # BubbleHeight(cnv_chat, 2)
  /\ BubbleHeight(cnv_chat, 2) # BubbleHeight(cnv_chat, 3)

\* C6: in every state the stem of every bubble on the canvas is the triangle
\* of the bubble's current box: (x1,y2-10),(x1-15,y2+10),(x1,y2) on the left,
\* (x2,y2-10),(x2+15,y2+10),(x2,y2) on the right.
C6_StemFlush ==
  \A k \in Live(cnv_chat) :
    LET b   == cnv_chat.bubbles[k]
        box == bbox(cnv_chat.items[b.i])
    IN  /\ b.bubl_tip \in DOMAIN cnv_chat.items
        /\ cnv_chat.items[b.bubl_tip].pts =
             IF b.left
             THEN <<box[1], box[4] - 10, box[1] - 15, box[4] + 10, box[1], box[4]>>
             ELSE <<box[3], box[4] - 10, box[3] + 15, box[4] + 10, box[3], box[4]>>

C6_Witness ==
  /\ Cardinality(Live(cnv_chat)) >= 3
  /\ \E j, k \in Live(cnv_chat) :
       j < k /\ cnv_chat.bubbles[j].left /\ ~cnv_chat.bubbles[k].left

\* C7: when the checklist window of a resumed session (no application
\* instance) goes away other than by the completion button, the root is gone
\* with it and the run is over; the completion button closes the checklist
\* and leaves the root in place.
C7_CloseTearsDownRoot ==
  [][/\ (tw.open /\ ~tw.app /\ ~tw'.open /\ last_event' # "btn_end")
          => root' = "none" /\ ~app'
     /\ (tw.open /\ last_event' = "btn_end")
          => ~tw'.open /\ root' # "none"]_vars

C7_Witness ==
  /\ last_event = "destroy"
  /\ start_path = "resume"
  /\ root = "none"
  /\ pending.some
  /\ Len(pending.list) >= 1

\* the completion button has been pressed in this run
Completed == app /\ HasExit(cnv_chat)

\* C8: after the completion button the two greetings are displayed on the
\* left, the input field is enabled and lines can be submitted again.
C8_CompletionRestartsCapture ==
  [][last_event' = "btn_end" =>
       /\ entry'.state = "normal"
       /\ {WELCOME, PROMPT} \subseteq LiveTexts(cnv_chat')]_vars

\* C8 as amended: after the completion button the two farewells are the
\* newest bubbles, both on the left, the exit button is shown, the input
\* field is disabled, and no line is submitted in the rest of the run.
C8_CompletionEndsCapture ==
  [][/\ last_event' = "btn_end" =>
          LET n == Len(cnv_chat'.bubbles)
          IN  /\ n >= 2
              /\ {n - 1, n} \subseteq Live(cnv_chat')
              /\ cnv_chat'.items[cnv_chat'.bubbles[n - 1].i].text = BYE1
              /\ cnv_chat'.items[cnv_chat'.bubbles[n].i].text = BYE2
              /\ cnv_chat'.bubbles[n - 1].left /\ cnv_chat'.bubbles[n].left
              /\ LiveTexts(cnv_chat') = {BYE1, BYE2}
              /\ HasExit(cnv_chat')
              /\ entry'.state = "disabled"
     /\ Completed => last_event' # "return" /\ entry'.state # "normal"]_vars

C8_Witness ==
  /\ Completed
  /\ start_path = "fresh"
  /\ Len(submitted) >= 1

\* C9: right after the transition to the checklist the bubble collection has
\* length 0, and after the two farewells it holds exactly 2 bubbles.
C9_ClearResetsCollection ==
  /\ (last_event = "return" /\ tw.open) => Len(cnv_chat.bubbles) = 0
  /\ last_event = "btn_end" => Len(cnv_chat.bubbles) = 2

\* C10: in every state after the completion button the application's
\* TaskList is empty.
C10_TaskListCleared ==
  Completed => tasks = <<>>

\* C10 as amended: the TaskList is empty when the application instance is
\* created, and completion leaves it as it is: in every state after the
\* completion button it holds the lines captured in this run (none on the
\* resumed path, where the completion handler creates the instance).
C10_TaskListKept ==
  /\ [][(LaunchStep /\ app') => tasks' = <<>>]_vars
  /\ [][(last_event' = "btn_end" /\ ~tw.app) => tasks' = <<>>]_vars
  /\ [](Completed => tasks = submitted)

C10_Witness ==
  /\ Completed
  /\ Len(tasks) >= 2

\* C11: after the handler of the exit control has run, rec/data.json does not
\* exist and the run is over, so the launch that follows takes the fresh path:
\* greetings, input enabled, no checklist.
C11_ExitDeletesRecord ==
  /\ [][last_event' = "btn_exit" => ~file'.exists /\ root' = "none"]_vars
  /\ [][(LaunchStep /\ last_event = "btn_exit")
          => /\ start_path' = "fresh"
             /\ ~tw'.open
             /\ entry'.state = "normal"]_vars

C11_Witness ==
  /\ last_event = "btn_exit"
  /\ start_path = "resume"
  /\ root = "none"
  /\ ~file.exists

\* C12: in a run that started on the resume path the capture window is never
\* shown, the time after the completion button included.
C12_CaptureNeverShown ==
  (start_path = "resume" /\ root # "none") => root # "normal"

\* C12 as amended: in a run that started on the resume path the capture
\* window does not exist and the root is withdrawn for as long as the resumed
\* checklist is open; the completion button creates the capture window and
\* shows it, with the farewells and the exit button.
C12_CaptureShownOnCompletion ==
  /\ []((start_path = "resume" /\ root # "none" /\ ~Completed)
          => tw.open /\ root = "withdrawn" /\ ~app)
  /\ [][(start_path = "resume" /\ last_event' = "btn_end")
          => root' = "normal" /\ app' /\ Completed']_vars

C12_Witness ==
  /\ start_path = "resume"
  /\ last_event = "btn_end"
  /\ root = "normal"

\* the empty line has been submitted in this run of the capture session
AfterEmptyLine ==
  start_path = "fresh" /\ root # "none" /\ (tw.open \/ Completed)

RightBubbles(cv) == {k \in 1..Len(cv.bubbles) : ~cv.bubbles[k].left}

\* C13: once the empty line has been submitted the input stays disabled for
\* the rest of the run: no later <Return> is handled, nothing is appended to
\* the TaskList, no RIGHT bubble is added, and the list of the checklist
\* stays what it was constructed with.
C13_InputStaysDisabled ==
  /\ [](AfterEmptyLine => entry.state = "disabled")
  /\ [][AfterEmptyLine =>
          /\ last_event' # "return"
          /\ root' # "none" =>
               /\ tasks' = tasks
               /\ RightBubbles(cnv_chat') = RightBubbles(cnv_chat)
               /\ (tw.open /\ tw'.open) => tw'.task_list = tw.task_list]_vars

C13_Witness ==
  /\ AfterEmptyLine
  /\ last_event = "return"
  /\ tw.open
  /\ Len(tw.task_list) >= 1

\* C14: the bubbles on the canvas are stacked in the order they were sent and
\* do not overlap: of any two, the box of the older one ends at or above the
\* top edge of the box of the newer one, the newest being lowest.
C14_OrderedNoOverlap ==
  \A j, k \in Live(cnv_chat) :
    j < k =>
      LET older == bbox(cnv_chat.items[cnv_chat.bubbles[j].i])
          newer == bbox(cnv_chat.items[cnv_chat.bubbles[k].i])
      IN  /\ older[4] <= newer[2]
          /\ older[2] < newer[2]

C14_Witness ==
  /\ Live(cnv_chat) = 1..3
  /\ BubbleHeight(cnv_chat, 1) < BubbleHeight(cnv_chat, 2)
  /\ BubbleHeight(cnv_chat, 2) > BubbleHeight(cnv_chat, 3)

\* the scroll region holds the box of every item, with 300 to spare above
Encompasses(cv) ==
  \A id \in DOMAIN cv.items :
    LET box == bbox(cv.items[id])
    IN  /\ cv.scrollregion[1] <= box[1]
        /\ cv.scrollregion[2] <= box[2] - 300
        /\ cv.scrollregion[3] >= box[3]
        /\ cv.scrollregion[4] >= box[4]

RegionHeight(cv) == cv.scrollregion[4] - cv.scrollregion[2]

\* C15: after every send_message the scroll region holds the boxes of all
\* bubbles and stems on the canvas plus 300 units above them and the view is
\* at the bottom, and from one send_message to the next with no clear between
\* them the height of the scroll region does not decrease.
C15_ScrollRegionGrows ==
  /\ [](last_event = "send" => Encompasses(cnv_chat) /\ cnv_chat.yview = 1)
  /\ [][(last_event = "send" /\ last_event' = "send")
          => RegionHeight(cnv_chat') >= RegionHeight(cnv_chat)]_vars

C15_Witness ==
  /\ last_event = "send"
  /\ Live(cnv_chat) = 1..3
  /\ BubbleHeight(cnv_chat, 3) < BubbleHeight(cnv_chat, 2)
  /\ RegionHeight(cnv_chat) > SCROLL_PAD

\* C16: when the checklist window of a live application goes away other than
\* by the completion button, the root is destroyed and the run is over, the
\* record stays on disk as it was, and the launch that follows resumes the
\* checklist on the same list.
C16_CloseWithAppEndsRun ==
  /\ [][(tw.open /\ tw.app /\ last_event' = "destroy")
          => /\ root' = "none"
             /\ ~app'
             /\ file'.exists
             /\ file' = file
             /\ json_load(file'.text) = tw.task_list]_vars
  /\ [][(LaunchStep /\ last_event = "destroy" /\ start_path = "fresh")
          => /\ start_path' = "resume"
             /\ tw'.open
             /\ tw'.task_list = pending.list]_vars

C16_Witness ==
  /\ last_event = "destroy"
  /\ start_path = "fresh"
  /\ root = "none"
  /\ file.exists
  /\ Len(pending.list) >= 2

\* C17: between callbacks the chat window is never visible while a checklist
\* window is open, and no run constructs more than one checklist window.
C17_OneWindowAtATime ==
  /\ ~(root = "normal" /\ tw.open)
  /\ tw_made <= 1

C17_Witness ==
  /\ Completed
  /\ root = "normal"
  /\ start_path = "resume"
  /\ tw_made = 1
  /\ ~tw.open

=============================================================================
